---- MODULE Spec2Model ----
(***************************************************************************)
(* A state-machine model of the WhatsApp appeal bot (src/bot_part2.py):    *)
(* the AppealManager's appeal table and lifecycle operations, the id       *)
(* allocator, the BotEngine's message processing, the conversation state   *)
(* store and the MessageHandler's queue; and of the bot's start, main loop *)
(* and shutdown (src/bot_main.py).                                         *)
(*                                                                         *)
(* Python values are rendered as follows.  Optional[str] is a sequence of  *)
(* length at most one (None is <<>>, a string s is <<s>>).  A string that   *)
(* the program formats or searches is computed as the sequence of its      *)
(* characters, so that zero padding, lexicographic order and substring     *)
(* search are those of the Python string; Str turns it into the string.    *)
(* datetime.utcnow() reads the variable clock, counted in ticks; a call    *)
(* may find the clock advanced by one tick at any one of its reads.        *)
(* The time stamps the engine writes and never reads (of a UserProfile, of *)
(* a conversation state's last_action, of a history entry) are left out.   *)
(***************************************************************************)
EXTENDS Integers, Sequences, FiniteSets, TLC

VARIABLES
    appeals,        \* AppealManager.appeals: appeal id -> Appeal
    user_appeals,   \* AppealManager.user_appeals: user id -> list of appeal ids
    clock,          \* the value datetime.utcnow() returned last, in ticks
    last,           \* the call made last: its name, arguments and return value
    calls,          \* the number of calls made so far
    issued,         \* the ids create_appeal has returned, in the order of the returns,
                    \* each as the characters _generate_appeal_id formatted
    pc,             \* concurrent create_appeal calls: thread -> position in the call
    local,          \* concurrent create_appeal calls: thread -> its local variables
    user_profiles,  \* BotEngine.user_profiles: user id -> UserProfile
    states,         \* ConversationState.states: user id -> conversation state
    dialog,         \* sender -> the messages of the sender that were classified, each
                    \* with its intent, its parameters and the reply
    message_dicts,  \* the message dicts that exist: reference -> dict
    message_queue,  \* MessageHandler.message_queue: list of references
    processed_messages, \* MessageHandler.processed_messages: list of references
    queued,         \* the references queue_message was called with, in call order
    environ,        \* os.environ: variable name -> value, None when unset
    is_running,     \* WhatsAppAppealBot.is_running
    run_at,         \* the position of WhatsAppAppealBot.run
    results,        \* what load_config, initialize_database, initialize_handlers
                    \* and startup have returned, None before the return
    shutdowns,      \* the number of times shutdown was executed
    iterations      \* the number of times the body of the main loop was executed

vars == <<appeals, user_appeals, clock, last, calls, issued, pc, local,
          user_profiles, states, dialog,
          message_dicts, message_queue, processed_messages, queued,
          environ, is_running, run_at, results, shutdowns, iterations>>

\* the variables of the engine outside the AppealManager
engine == <<user_profiles, states, dialog>>

\* the variables of the MessageHandler's queue
handler == <<message_dicts, message_queue, processed_messages, queued>>

\* the variables of the WhatsAppAppealBot
runner == <<environ, is_running, run_at, results, shutdowns, iterations>>

\* the variables outside the AppealManager and the engine
others == <<handler, runner>>

(***************************************************************************)
(* Bounds of the model.                                                    *)
(***************************************************************************)
MaxCalls == 3           \* calls made on one AppealManager
MaxIdCalls == 2         \* create_appeal calls made on a table filled beforehand
MaxTicks == 2           \* ticks of the clock while two threads create appeals
TicksPerSecond == 2     \* clock ticks in one second of the id's timestamp

(***************************************************************************)
(* Program constants.                                                      *)
(***************************************************************************)
SeqWidth == 4           \* the 04d of the id's sequence field
StampWidth == 14        \* the length of strftime("%Y%m%d%H%M%S")

None == <<>>
Some(x) == <<x>>

\* MessageHandler.__init__: both lists empty; no message dict exists yet
InitHandler ==
    /\ message_dicts = <<>>
    /\ message_queue = <<>>
    /\ processed_messages = <<>>
    /\ queued = <<>>

\* the names load_config reads from the environment
EnvNames == {"WHATSAPP_API_KEY", "WHATSAPP_PHONE_NUMBER", "DATABASE_URL"}

\* an environment in which none of them is set
NoEnviron == [name \in EnvNames |-> None]

\* WhatsAppAppealBot.__init__ in the environment env, before run is called
InitRunner(env) ==
    /\ environ = env
    /\ is_running = FALSE
    /\ run_at = "start"
    /\ results = [load_config |-> None, initialize_database |-> None,
                  initialize_handlers |-> None, startup |-> None]
    /\ shutdowns = 0
    /\ iterations = 0

InitOthers == InitHandler /\ InitRunner(NoEnviron)

Users == {"A", "B"}
Categories == {"technical"}
Subjects == {"S"}
Descriptions == {"D"}
Priorities == {"normal", "low"}
NotesArgs == {None, Some("checked")}
Reasons == {"late"}
Resolutions == {"", "fixed"}
Attachments == {"photo"}

(***************************************************************************)
(* AppealStatus                                                            *)
(***************************************************************************)
AppealStatus == {"PENDING", "UNDER_REVIEW", "APPROVED", "REJECTED", "ESCALATED", "CLOSED"}

(***************************************************************************)
(* Formatting of an appeal id: f"APP-{timestamp}-{count:04d}".             *)
(***************************************************************************)
DigitChar(d) ==
    CASE d = 0 -> "0" [] d = 1 -> "1" [] d = 2 -> "2" [] d = 3 -> "3" [] d = 4 -> "4"
      [] d = 5 -> "5" [] d = 6 -> "6" [] d = 7 -> "7" [] d = 8 -> "8" [] d = 9 -> "9"

RECURSIVE Digits(_)
Digits(n) == IF n < 10 THEN <<DigitChar(n)>> ELSE Append(Digits(n \div 10), DigitChar(n % 10))

RECURSIVE Zeros(_)
Zeros(k) == IF k <= 0 THEN <<>> ELSE <<"0">> \o Zeros(k - 1)

\* format(n, "0{w}d"): at least w characters, zero-padded on the left
PadDigits(n, w) == Zeros(w - Len(Digits(n))) \o Digits(n)

\* strftime("%Y%m%d%H%M%S"): a fixed-width field, here the count of seconds
Timestamp(now) == PadDigits(now \div TicksPerSecond, StampWidth)

\* the string of a sequence of characters
RECURSIVE Str(_)
Str(chars) == IF chars = <<>> THEN "" ELSE Head(chars) \o Str(Tail(chars))

FormatAppealId(timestamp, count) ==
    <<"A", "P", "P", "-">> \o timestamp \o <<"-">> \o PadDigits(count, SeqWidth)

_generate_appeal_id(now, table) ==
    FormatAppealId(Timestamp(now), Cardinality(DOMAIN table) + 1)

(***************************************************************************)
(* Appeal, with the defaults of the dataclass and of __post_init__.        *)
(***************************************************************************)
Appeal(appeal_id, user_id, category, subject, description, priority, t_created, t_updated) ==
    [ appeal_id   |-> appeal_id,
      user_id     |-> user_id,
      category    |-> category,
      subject     |-> subject,
      description |-> description,
      status      |-> "PENDING",
      priority    |-> priority,
      attachments |-> <<>>,
      created_at  |-> t_created,
      updated_at  |-> t_updated,
      assigned_to |-> None,
      notes       |-> <<>>,
      resolution  |-> None ]

\* dict assignment d[k] = v
Put(d, k, v) == (k :> v) @@ d

\* a registration that puts the new id first in the user's list
Register_AtFront(ua, user_id, appeal_id) ==
    Put(ua, user_id, <<appeal_id>> \o (IF user_id \in DOMAIN ua THEN ua[user_id] ELSE <<>>))

\* user_appeals after registering appeal_id under user_id
Register(ua, user_id, appeal_id) ==
    Put(ua, user_id, Append(IF user_id \in DOMAIN ua THEN ua[user_id] ELSE <<>>, appeal_id))

get_appeal(appeal_id) == IF appeal_id \in DOMAIN appeals THEN Some(appeals[appeal_id]) ELSE None

RECURSIVE Present(_, _)
Present(ids, table) ==
    IF ids = <<>> THEN <<>>
    ELSE (IF Head(ids) \in DOMAIN table THEN <<table[Head(ids)]>> ELSE <<>>)
             \o Present(Tail(ids), table)

\* get_user_appeals on the given lists and table
UserAppeals(lists, table, user_id) ==
    Present(IF user_id \in DOMAIN lists THEN lists[user_id] ELSE <<>>, table)

get_user_appeals(user_id) == UserAppeals(user_appeals, appeals, user_id)

(***************************************************************************)
(* The appeal as each operation leaves it.                                 *)
(***************************************************************************)
Updated(appeal, status, notes, now) ==
    [appeal EXCEPT
        !.status = status,
        !.updated_at = now,
        !.notes = IF notes # None /\ notes[1] # ""
                  THEN Append(@, [timestamp |-> now, content |-> notes[1]])
                  ELSE @]

Attached(appeal, attachment_url, now) ==
    [appeal EXCEPT !.attachments = Append(@, attachment_url), !.updated_at = now]

\* an escalation that leaves the priority as it was
Escalated_KeepsPriority(appeal, reason, now) ==
    [appeal EXCEPT
        !.status = "ESCALATED",
        !.updated_at = now,
        !.notes = Append(@, [timestamp |-> now, content |-> "Escalated: " \o reason])]

Escalated(appeal, reason, now) ==
    [appeal EXCEPT
        !.status = "ESCALATED",
        !.priority = "high",
        !.updated_at = now,
        !.notes = Append(@, [timestamp |-> now, content |-> "Escalated: " \o reason])]

Closed(appeal, resolution, now) ==
    [appeal EXCEPT !.status = "CLOSED", !.resolution = Some(resolution), !.updated_at = now]

(***************************************************************************)
(* The calls.  Ids a caller may pass: those in the table and one that is   *)
(* not.                                                                    *)
(***************************************************************************)
UnknownId == "APP-?"
CallIds == DOMAIN appeals \cup {UnknownId}

\* the reads of the clock in create_appeal: the id's timestamp, created_at,
\* updated_at; the clock advances by a tick before at most one of them
CreateReads == { <<0, 0, 0>>, <<1, 1, 1>>, <<0, 1, 1>>, <<0, 0, 1>> }

\* create_appeal on the given table and lists, the clock reading now before
\* the call: the table, the lists and the clock after it, and the appeal made
Created(table, lists, now, user_id, category, subject, description, priority, r) ==
    LET generated == _generate_appeal_id(now + r[1], table)
        appeal == Appeal(Str(generated), user_id, category, subject, description, priority,
                         now + r[2], now + r[3])
    IN  [ appeals |-> Put(table, appeal.appeal_id, appeal),
          user_appeals |-> Register(lists, user_id, appeal.appeal_id),
          clock |-> now + r[3],
          generated |-> generated,
          appeal |-> appeal ]

create_appeal ==
    /\ calls < MaxCalls
    /\ \E user_id \in Users, category \in Categories, subject \in Subjects,
          description \in Descriptions, priority \in Priorities, r \in CreateReads :
         LET made == Created(appeals, user_appeals, clock, user_id, category, subject,
                             description, priority, r)
         IN  /\ appeals' = made.appeals
             /\ user_appeals' = made.user_appeals
             /\ clock' = made.clock
             /\ last' = [op |-> "create", id |-> made.appeal.appeal_id, ok |-> TRUE,
                         arg |-> [user_id |-> user_id, category |-> category,
                                  subject |-> subject, description |-> description,
                                  priority |-> priority]]
             /\ issued' = Append(issued, made.generated)
    /\ calls' = calls + 1
    /\ UNCHANGED <<pc, local, engine, others>>

update_appeal_status ==
    /\ calls < MaxCalls
    /\ \E appeal_id \in CallIds, status \in AppealStatus, notes \in NotesArgs, d \in {0, 1} :
         /\ IF appeal_id \notin DOMAIN appeals
            THEN /\ UNCHANGED <<appeals, clock>>
                 /\ last' = [op |-> "update_status", id |-> appeal_id, ok |-> FALSE,
                             arg |-> [status |-> status, notes |-> notes]]
            ELSE /\ appeals' = [appeals EXCEPT
                                  ![appeal_id] = Updated(@, status, notes, clock + d)]
                 /\ clock' = clock + d
                 /\ last' = [op |-> "update_status", id |-> appeal_id, ok |-> TRUE,
                             arg |-> [status |-> status, notes |-> notes]]
    /\ calls' = calls + 1
    /\ UNCHANGED <<user_appeals, issued, pc, local, engine, others>>

add_attachment ==
    /\ calls < MaxCalls
    /\ \E appeal_id \in CallIds, attachment_url \in Attachments, d \in {0, 1} :
         /\ IF appeal_id \notin DOMAIN appeals
            THEN /\ UNCHANGED <<appeals, clock>>
                 /\ last' = [op |-> "add_attachment", id |-> appeal_id, ok |-> FALSE,
                             arg |-> [attachment_url |-> attachment_url]]
            ELSE /\ appeals' = [appeals EXCEPT
                                  ![appeal_id] = Attached(@, attachment_url, clock + d)]
                 /\ clock' = clock + d
                 /\ last' = [op |-> "add_attachment", id |-> appeal_id, ok |-> TRUE,
                             arg |-> [attachment_url |-> attachment_url]]
    /\ calls' = calls + 1
    /\ UNCHANGED <<user_appeals, issued, pc, local, engine, others>>

escalate_appeal ==
    /\ calls < MaxCalls
    /\ \E appeal_id \in CallIds, reason \in Reasons, d \in {0, 1} :
         /\ IF appeal_id \notin DOMAIN appeals
            THEN /\ UNCHANGED <<appeals, clock>>
                 /\ last' = [op |-> "escalate", id |-> appeal_id, ok |-> FALSE,
                             arg |-> [reason |-> reason]]
            ELSE /\ appeals' = [appeals EXCEPT ![appeal_id] = Escalated(@, reason, clock + d)]
                 /\ clock' = clock + d
                 /\ last' = [op |-> "escalate", id |-> appeal_id, ok |-> TRUE,
                             arg |-> [reason |-> reason]]
    /\ calls' = calls + 1
    /\ UNCHANGED <<user_appeals, issued, pc, local, engine, others>>

\* a close_appeal that reports success on an id that is not in the table
close_appeal_Lenient ==
    /\ calls < MaxCalls
    /\ \E appeal_id \in CallIds, resolution \in Resolutions, d \in {0, 1} :
         /\ IF appeal_id \notin DOMAIN appeals
            THEN /\ UNCHANGED <<appeals, clock>>
                 /\ last' = [op |-> "close", id |-> appeal_id, ok |-> TRUE,
                             arg |-> [resolution |-> resolution]]
            ELSE /\ appeals' = [appeals EXCEPT ![appeal_id] = Closed(@, resolution, clock + d)]
                 /\ clock' = clock + d
                 /\ last' = [op |-> "close", id |-> appeal_id, ok |-> TRUE,
                             arg |-> [resolution |-> resolution]]
    /\ calls' = calls + 1
    /\ UNCHANGED <<user_appeals, issued, pc, local, engine, others>>

close_appeal ==
    /\ calls < MaxCalls
    /\ \E appeal_id \in CallIds, resolution \in Resolutions, d \in {0, 1} :
         /\ IF appeal_id \notin DOMAIN appeals
            THEN /\ UNCHANGED <<appeals, clock>>
                 /\ last' = [op |-> "close", id |-> appeal_id, ok |-> FALSE,
                             arg |-> [resolution |-> resolution]]
            ELSE /\ appeals' = [appeals EXCEPT ![appeal_id] = Closed(@, resolution, clock + d)]
                 /\ clock' = clock + d
                 /\ last' = [op |-> "close", id |-> appeal_id, ok |-> TRUE,
                             arg |-> [resolution |-> resolution]]
    /\ calls' = calls + 1
    /\ UNCHANGED <<user_appeals, issued, pc, local, engine, others>>

(***************************************************************************)
(* The AppealManager driven through its operations, from construction.     *)
(***************************************************************************)
NoCall == [op |-> "none", id |-> UnknownId, ok |-> FALSE, arg |-> [none |-> TRUE]]

Init ==
    /\ appeals = << >>
    /\ user_appeals = << >>
    /\ clock = 0
    /\ last = NoCall
    /\ calls = 0
    /\ issued = <<>>
    /\ pc = << >>
    /\ local = << >>
    /\ user_profiles = << >>
    /\ states = << >>
    /\ dialog = << >>
    /\ InitOthers

Next ==
    \/ create_appeal
    \/ update_appeal_status
    \/ add_attachment
    \/ escalate_appeal
    \/ close_appeal

Spec == Init /\ [][Next]_vars

(***************************************************************************)
(* The id allocator on a table that earlier create_appeal calls filled:    *)
(* the table is empty, or holds all but two of the appeals whose sequence  *)
(* number fits the width of the id's sequence field.  The appeals in it    *)
(* were created for one user during the second before the clock's.         *)
(***************************************************************************)
RECURSIVE Pow10(_)
Pow10(k) == IF k = 0 THEN 1 ELSE 10 * Pow10(k - 1)

FilledBefore == {0, Pow10(SeqWidth) - 2}

FilledId(i) == Str(FormatAppealId(Timestamp(0), i))

FilledTable(n) ==
    [id \in {FilledId(i) : i \in 1..n} |-> Appeal(id, "A", "technical", "S", "D", "normal", 0, 0)]

FilledLists(n) == IF n = 0 THEN << >> ELSE [u \in {"A"} |-> [i \in 1..n |-> FilledId(i)]]

InitIds ==
    /\ \E n \in FilledBefore :
         /\ appeals = FilledTable(n)
         /\ user_appeals = FilledLists(n)
         /\ clock = IF n = 0 THEN 0 ELSE TicksPerSecond
    /\ last = NoCall
    /\ calls = 0
    /\ issued = <<>>
    /\ pc = << >>
    /\ local = << >>
    /\ user_profiles = << >>
    /\ states = << >>
    /\ dialog = << >>
    /\ InitOthers

NextIds == calls < MaxIdCalls /\ create_appeal

SpecIds == InitIds /\ [][NextIds]_vars

(***************************************************************************)
(* Two threads call create_appeal on one AppealManager, each for its own   *)
(* sender.  A call takes four steps: _generate_appeal_id, the construction *)
(* of the Appeal up to its created_at, the rest of the construction with   *)
(* the insertion into the table, and the registration under the sender     *)
(* with the return.  The steps of the two calls interleave in any order    *)
(* and the clock may tick between any two of them.                         *)
(***************************************************************************)
Threads == {1, 2}
SenderOf(t) == IF t = 1 THEN "A" ELSE "B"

InitConc ==
    /\ appeals = << >>
    /\ user_appeals = << >>
    /\ clock = 0
    /\ last = NoCall
    /\ calls = 0
    /\ issued = <<>>
    /\ pc = [t \in Threads |-> "start"]
    /\ local = [t \in Threads |-> [appeal_id |-> None, created_at |-> None, appeal |-> None]]
    /\ user_profiles = << >>
    /\ states = << >>
    /\ dialog = << >>
    /\ InitOthers

Tick ==
    /\ clock < MaxTicks
    /\ \E t \in Threads : pc[t] # "done"
    /\ clock' = clock + 1
    /\ UNCHANGED <<appeals, user_appeals, last, calls, issued, pc, local, engine, others>>

GenerateId(t) ==
    /\ pc[t] = "start"
    /\ local' = [local EXCEPT ![t].appeal_id = Some(_generate_appeal_id(clock, appeals))]
    /\ pc' = [pc EXCEPT ![t] = "generated"]
    /\ UNCHANGED <<appeals, user_appeals, clock, last, calls, issued, engine, others>>

Construct(t) ==
    /\ pc[t] = "generated"
    /\ local' = [local EXCEPT ![t].created_at = Some(clock)]
    /\ pc' = [pc EXCEPT ![t] = "constructing"]
    /\ UNCHANGED <<appeals, user_appeals, clock, last, calls, issued, engine, others>>

Insert(t) ==
    /\ pc[t] = "constructing"
    /\ LET appeal == Appeal(Str(local[t].appeal_id[1]), SenderOf(t), "technical", "S", "D",
                            "normal", local[t].created_at[1], clock)
       IN  /\ local' = [local EXCEPT ![t].appeal = Some(appeal)]
           /\ appeals' = Put(appeals, appeal.appeal_id, appeal)
    /\ pc' = [pc EXCEPT ![t] = "inserted"]
    /\ UNCHANGED <<user_appeals, clock, last, calls, issued, engine, others>>

RegisterAndReturn(t) ==
    /\ pc[t] = "inserted"
    /\ user_appeals' = Register(user_appeals, SenderOf(t), Str(local[t].appeal_id[1]))
    /\ issued' = Append(issued, local[t].appeal_id[1])
    /\ pc' = [pc EXCEPT ![t] = "done"]
    /\ UNCHANGED <<appeals, clock, last, calls, local, engine, others>>

NextConc ==
    \/ Tick
    \/ \E t \in Threads : GenerateId(t)
    \/ \E t \in Threads : Construct(t)
    \/ \E t \in Threads : Insert(t)
    \/ \E t \in Threads : RegisterAndReturn(t)

SpecConc == InitConc /\ [][NextConc]_vars

(***************************************************************************)
(* Texts.  A message text, a trigger and a keyword are strings; Chars      *)
(* spells each of them, and the classifier computes on the spelling.       *)
(***************************************************************************)
Chars(s) ==
    CASE s = "I want to report a technical issue" -> <<"I", " ", "w", "a", "n", "t", " ", "t", "o", " ", "r", "e", "p", "o", "r", "t", " ", "a", " ", "t", "e", "c", "h", "n", "i", "c", "a", "l", " ", "i", "s", "s", "u", "e">>
      [] s = "technical" -> <<"t", "e", "c", "h", "n", "i", "c", "a", "l">>
      [] s = "Login broken" -> <<"L", "o", "g", "i", "n", " ", "b", "r", "o", "k", "e", "n">>
      [] s = "Cannot log in since yesterday" -> <<"C", "a", "n", "n", "o", "t", " ", "l", "o", "g", " ", "i", "n", " ", "s", "i", "n", "c", "e", " ", "y", "e", "s", "t", "e", "r", "d", "a", "y">>
      [] s = "create new appeal" -> <<"c", "r", "e", "a", "t", "e", " ", "n", "e", "w", " ", "a", "p", "p", "e", "a", "l">>
      [] s = "new appeal technical" -> <<"n", "e", "w", " ", "a", "p", "p", "e", "a", "l", " ", "t", "e", "c", "h", "n", "i", "c", "a", "l">>
      [] s = "check status" -> <<"c", "h", "e", "c", "k", " ", "s", "t", "a", "t", "u", "s">>
      [] s = "cancel and exit" -> <<"c", "a", "n", "c", "e", "l", " ", "a", "n", "d", " ", "e", "x", "i", "t">>
      [] s = "appeal" -> <<"a", "p", "p", "e", "a", "l">>
      [] s = "complain" -> <<"c", "o", "m", "p", "l", "a", "i", "n">>
      [] s = "report" -> <<"r", "e", "p", "o", "r", "t">>
      [] s = "create" -> <<"c", "r", "e", "a", "t", "e">>
      [] s = "new" -> <<"n", "e", "w">>
      [] s = "status" -> <<"s", "t", "a", "t", "u", "s">>
      [] s = "check" -> <<"c", "h", "e", "c", "k">>
      [] s = "progress" -> <<"p", "r", "o", "g", "r", "e", "s", "s">>
      [] s = "update" -> <<"u", "p", "d", "a", "t", "e">>
      [] s = "provide" -> <<"p", "r", "o", "v", "i", "d", "e">>
      [] s = "here" -> <<"h", "e", "r", "e">>
      [] s = "attached" -> <<"a", "t", "t", "a", "c", "h", "e", "d">>
      [] s = "additional" -> <<"a", "d", "d", "i", "t", "i", "o", "n", "a", "l">>
      [] s = "escalate" -> <<"e", "s", "c", "a", "l", "a", "t", "e">>
      [] s = "urgent" -> <<"u", "r", "g", "e", "n", "t">>
      [] s = "critical" -> <<"c", "r", "i", "t", "i", "c", "a", "l">>
      [] s = "manager" -> <<"m", "a", "n", "a", "g", "e", "r">>
      [] s = "close" -> <<"c", "l", "o", "s", "e">>
      [] s = "done" -> <<"d", "o", "n", "e">>
      [] s = "resolve" -> <<"r", "e", "s", "o", "l", "v", "e">>
      [] s = "finish" -> <<"f", "i", "n", "i", "s", "h">>
      [] s = "help" -> <<"h", "e", "l", "p">>
      [] s = "guide" -> <<"g", "u", "i", "d", "e">>
      [] s = "how" -> <<"h", "o", "w">>
      [] s = "assist" -> <<"a", "s", "s", "i", "s", "t">>
      [] s = "cancel" -> <<"c", "a", "n", "c", "e", "l">>
      [] s = "never mind" -> <<"n", "e", "v", "e", "r", " ", "m", "i", "n", "d">>
      [] s = "discard" -> <<"d", "i", "s", "c", "a", "r", "d">>
      [] s = "exit" -> <<"e", "x", "i", "t">>
      [] s = "account" -> <<"a", "c", "c", "o", "u", "n", "t">>
      [] s = "billing" -> <<"b", "i", "l", "l", "i", "n", "g">>
      [] s = "service" -> <<"s", "e", "r", "v", "i", "c", "e">>
      [] s = "other" -> <<"o", "t", "h", "e", "r">>
      [] s = "high" -> <<"h", "i", "g", "h">>
      [] s = "low" -> <<"l", "o", "w">>
      [] s = "whenever" -> <<"w", "h", "e", "n", "e", "v", "e", "r">>
      [] s = "escalate to manager" -> <<"e", "s", "c", "a", "l", "a", "t", "e", " ", "t", "o", " ", "m", "a", "n", "a", "g", "e", "r">>
      [] s = "close and finish" -> <<"c", "l", "o", "s", "e", " ", "a", "n", "d", " ", "f", "i", "n", "i", "s", "h">>
      [] s = "here is the attached photo" -> <<"h", "e", "r", "e", " ", "i", "s", " ", "t", "h", "e", " ", "a", "t", "t", "a", "c", "h", "e", "d", " ", "p", "h", "o", "t", "o">>
      [] s = "Urgent" -> <<"U", "r", "g", "e", "n", "t">>
      [] s = "new urgent billing appeal" -> <<"n", "e", "w", " ", "u", "r", "g", "e", "n", "t", " ", "b", "i", "l", "l", "i", "n", "g", " ", "a", "p", "p", "e", "a", "l">>
      [] s = "" -> <<>>

\* str.lower() on one character
Lower(c) ==
    CASE c = "A" -> "a" [] c = "B" -> "b" [] c = "C" -> "c" [] c = "D" -> "d" [] c = "E" -> "e"
      [] c = "F" -> "f" [] c = "G" -> "g" [] c = "H" -> "h" [] c = "I" -> "i" [] c = "J" -> "j"
      [] c = "K" -> "k" [] c = "L" -> "l" [] c = "M" -> "m" [] c = "N" -> "n" [] c = "O" -> "o"
      [] c = "P" -> "p" [] c = "Q" -> "q" [] c = "R" -> "r" [] c = "S" -> "s" [] c = "T" -> "t"
      [] c = "U" -> "u" [] c = "V" -> "v" [] c = "W" -> "w" [] c = "X" -> "x" [] c = "Y" -> "y"
      [] c = "Z" -> "z" [] OTHER -> c

LowerAll(chars) == [i \in 1..Len(chars) |-> Lower(chars[i])]

\* str.strip() of blanks
RECURSIVE Strip(_)
Strip(chars) ==
    IF chars = <<>> THEN chars
    ELSE IF Head(chars) = " " THEN Strip(Tail(chars))
    ELSE IF chars[Len(chars)] = " " THEN Strip(SubSeq(chars, 1, Len(chars) - 1))
    ELSE chars

\* re.search(pattern, chars) and "word in chars", for a pattern without
\* special characters: the pattern occurs as a substring
Search(pattern, chars) ==
    \E i \in 1..(Len(chars) - Len(pattern) + 1) :
        SubSeq(chars, i, i + Len(pattern) - 1) = pattern

(***************************************************************************)
(* MessageHandler.extract_intent                                           *)
(***************************************************************************)
intent_patterns ==
    << [intent |-> "create_appeal", patterns |-> <<"appeal", "complain", "report", "create", "new">>],
       [intent |-> "check_status",  patterns |-> <<"status", "check", "progress", "update">>],
       [intent |-> "provide_info",  patterns |-> <<"provide", "here", "attached", "additional">>],
       [intent |-> "escalate",      patterns |-> <<"escalate", "urgent", "critical", "manager">>],
       [intent |-> "close_appeal",  patterns |-> <<"close", "done", "resolve", "finish">>],
       [intent |-> "get_help",      patterns |-> <<"help", "guide", "how", "assist">>],
       [intent |-> "cancel",        patterns |-> <<"cancel", "never mind", "discard", "exit">>] >>

\* sum(1 for pattern in patterns if re.search(pattern, content_lower))
Matches(patterns, content_lower) ==
    Cardinality({k \in 1..Len(patterns) : Search(Chars(patterns[k]), content_lower)})

\* matches > 0 and matches / len(patterns) > 0.3
Detected(patterns, content_lower) ==
    LET matches == Matches(patterns, content_lower)
    IN  matches > 0 /\ 10 * matches > 3 * Len(patterns)

\* the loop over intent_patterns from entry k on: the first intent detected
RECURSIVE DetectFrom(_, _)
DetectFrom(k, content_lower) ==
    IF k > Len(intent_patterns) THEN "unknown"
    ELSE IF Detected(intent_patterns[k].patterns, content_lower) THEN intent_patterns[k].intent
    ELSE DetectFrom(k + 1, content_lower)

\* the first word of the list that occurs in the text, None when none does
RECURSIVE FirstIn(_, _)
FirstIn(words, chars) ==
    IF words = <<>> THEN None
    ELSE IF Search(Chars(Head(words)), chars) THEN Some(Head(words))
    ELSE FirstIn(Tail(words), chars)

categories == <<"account", "billing", "technical", "service", "other">>

IsDigit(c) == c \in {"0", "1", "2", "3", "4", "5", "6", "7", "8", "9"}

\* re.findall(email_pattern, ...) and re.findall(phone_pattern, ...): a match
\* of the first holds an "@" and a match of the second a digit; the model
\* passes texts that hold neither, and is undefined on the others
NoEmailNoPhone(chars) == \A i \in 1..Len(chars) : chars[i] # "@" /\ ~IsDigit(chars[i])

\* _extract_parameters on the characters of the message; a search for the
\* softness words before the urgent ones is the variant SoftFirst
ExtractParameters_SoftFirst(chars) ==
    LET lowered == LowerAll(chars)
        category == FirstIn(categories, lowered)
        priority == IF FirstIn(<<"low", "whenever">>, lowered) # None THEN "low"
                    ELSE IF FirstIn(<<"urgent", "critical", "high">>, lowered) # None THEN "high"
                    ELSE "normal"
    IN  CASE NoEmailNoPhone(chars) ->
             IF category # None
             THEN [category |-> category[1], priority |-> priority]
             ELSE [priority |-> priority]

ExtractParameters(chars) ==
    LET lowered == LowerAll(chars)
        category == FirstIn(categories, lowered)
        priority == IF FirstIn(<<"urgent", "critical", "high">>, lowered) # None THEN "high"
                    ELSE IF FirstIn(<<"low", "whenever">>, lowered) # None THEN "low"
                    ELSE "normal"
    IN  CASE NoEmailNoPhone(chars) ->
             IF category # None
             THEN [category |-> category[1], priority |-> priority]
             ELSE [priority |-> priority]

_extract_parameters(message_content, intent) == ExtractParameters(Chars(message_content))

\* a loop that keeps the intent of the highest score above the threshold, the
\* earlier one on a tie
RECURSIVE DetectBest(_, _, _, _)
DetectBest(k, content_lower, best, score) ==
    IF k > Len(intent_patterns) THEN best
    ELSE LET patterns == intent_patterns[k].patterns
             mine == (100 * Matches(patterns, content_lower)) \div Len(patterns)
         IN  IF Detected(patterns, content_lower) /\ mine > score
             THEN DetectBest(k + 1, content_lower, intent_patterns[k].intent, mine)
             ELSE DetectBest(k + 1, content_lower, best, score)

Detect_HighestScore(content_lower) == DetectBest(1, content_lower, "unknown", 0)

\* the loop over intent_patterns, from its first entry
Detect(content_lower) == DetectFrom(1, content_lower)

\* extract_intent on the characters of the message
ExtractIntent(chars) ==
    LET content_lower == Strip(LowerAll(chars))
        detected_intent == Detect(content_lower)
    IN  [intent |-> detected_intent, parameters |-> ExtractParameters(chars)]

extract_intent(message_content) == ExtractIntent(Chars(message_content))

(***************************************************************************)
(* ResponseGenerator.  A template is the sequence of its literal parts and *)
(* its placeholders.  The texts are the program's without the emoji, with  *)
(* " / " for a line break.                                                 *)
(***************************************************************************)
Lit(text) == [kind |-> "lit", text |-> text]
Ph(name) == [kind |-> "ph", text |-> name]

TEMPLATES ==
    [ welcome |-> << Lit("Selamat datang di Bot Appeal kami! / Ada yang bisa saya bantu?") >>,
      help |-> << Lit("Cara Menggunakan Bot Appeal: / Ketik 'appeal' untuk buat appeal baru / Bagaimana?") >>,
      appeal_created |-> << Lit("Appeal berhasil dibuat! / ID Appeal: "), Ph("appeal_id"),
                            Lit(" / Kategori: "), Ph("category"),
                            Lit(" / Status: "), Ph("status"),
                            Lit(" / Tim kami akan meninjau dalam 24 jam.") >>,
      status_check |-> << Lit("Status Appeal Anda: / ID: "), Ph("appeal_id"),
                          Lit(" / Kategori: "), Ph("category"),
                          Lit(" / Status: "), Ph("status"),
                          Lit(" / Diperbarui: "), Ph("updated_at") >>,
      invalid_input |-> << Lit("Input tidak valid. Mohon ulangi atau ketik 'help' untuk panduan.") >>,
      error |-> << Lit("Terjadi kesalahan. Silakan coba lagi.") >> ]

\* template.format(**kwargs), when every placeholder is bound
RECURSIVE Format(_, _)
Format(template, kwargs) ==
    IF template = <<>> THEN ""
    ELSE (IF Head(template).kind = "lit" THEN Head(template).text
          ELSE kwargs[Head(template).text]) \o Format(Tail(template), kwargs)

\* the template as it is written, its placeholders in braces
RECURSIVE Unformatted(_)
Unformatted(template) ==
    IF template = <<>> THEN ""
    ELSE (IF Head(template).kind = "lit" THEN Head(template).text
          ELSE "{" \o Head(template).text \o "}") \o Unformatted(Tail(template))

\* a lookup that falls back to the invalid_input template
generate_response_OtherFallback(response_type, kwargs) ==
    LET template == IF response_type \in DOMAIN TEMPLATES
                    THEN TEMPLATES[response_type] ELSE TEMPLATES["invalid_input"]
        KeyError == \E k \in 1..Len(template) :
                        template[k].kind = "ph" /\ template[k].text \notin DOMAIN kwargs
    IN  IF KeyError THEN Unformatted(template) ELSE Format(template, kwargs)

generate_response(response_type, kwargs) ==
    LET template == IF response_type \in DOMAIN TEMPLATES
                    THEN TEMPLATES[response_type] ELSE TEMPLATES["error"]
        KeyError == \E k \in 1..Len(template) :
                        template[k].kind = "ph" /\ template[k].text \notin DOMAIN kwargs
    IN  IF KeyError THEN Unformatted(template) ELSE Format(template, kwargs)

NoArgs == << >>

(***************************************************************************)
(* ConversationState: each operation as the states it leaves.              *)
(***************************************************************************)
\* an initial state whose draft holds a category
initialize_state_WithCategory(st, user_id) ==
    Put(st, user_id, [current_step |-> "menu", appeal_draft |-> [category |-> "other"],
                      conversation_history |-> <<>>])

initialize_state(st, user_id) ==
    Put(st, user_id, [current_step |-> "menu", appeal_draft |-> << >>,
                      conversation_history |-> <<>>])

\* the states after get_state(user_id)
get_state(st, user_id) == IF user_id \in DOMAIN st THEN st ELSE initialize_state(st, user_id)

update_state(st, user_id, step, data) ==
    [get_state(st, user_id) EXCEPT ![user_id].current_step = step,
                                   ![user_id].appeal_draft = data @@ @]

add_to_history(st, user_id, message, sender) ==
    [get_state(st, user_id) EXCEPT
        ![user_id].conversation_history = Append(@, [sender |-> sender, message |-> message])]

\* a clear_state that empties the draft and keeps the rest of the state
clear_state_DraftOnly(st, user_id) ==
    IF user_id \in DOMAIN st THEN [st EXCEPT ![user_id].appeal_draft = << >>] ELSE st

\* a clear_state that leaves the state as it is
clear_state_Keeps(st, user_id) == st

clear_state(st, user_id) == [u \in DOMAIN st \ {user_id} |-> st[u]]

(***************************************************************************)
(* BotEngine.  A handler takes the engine's state E (the appeal table, the *)
(* users' lists, the clock, the conversation states, the profiles) and     *)
(* gives the state it leaves and its response: Some(text), or None when it *)
(* raises.  r holds the clock's advance at the reads the handler makes.    *)
(***************************************************************************)
CategoryPrompt == "Kategori apa? (account/billing/technical/service/other)"
SubjectPrompt == "Judul/subject appeal?"
DescriptionPrompt == "Jelaskan detail masalah Anda:"
NoAppealsReply == "Anda belum membuat appeal apapun."

\* AppealStatus.value
StatusValue(status) ==
    CASE status = "PENDING" -> "pending" [] status = "UNDER_REVIEW" -> "under_review"
      [] status = "APPROVED" -> "approved" [] status = "REJECTED" -> "rejected"
      [] status = "ESCALATED" -> "escalated" [] status = "CLOSED" -> "closed"

\* updated_at[:10], the date of the isoformat: the count of the day
IsoDate(now) == "day " \o Str(Digits(now \div (TicksPerSecond * 86400)))

\* dict.get(key, default)
Get(d, key, default) == IF key \in DOMAIN d THEN d[key] ELSE default

\* the end of _handle_create_appeal with a draft that wins over the parameters
CreateFromDraft_DraftWins(E, st, user_id, message, params, r) ==
    LET merged == st[user_id].appeal_draft @@ params
        made == Created(E.appeals, E.user_appeals, E.clock, user_id,
                        Get(merged, "category", "other"),
                        Get(merged, "subject", message),
                        Get(merged, "description", message),
                        Get(merged, "priority", "normal"), r)
    IN  [E |-> [E EXCEPT
                  !.appeals = made.appeals,
                  !.user_appeals = made.user_appeals,
                  !.clock = made.clock,
                  !.issued = Append(@, made.generated),
                  !.states = clear_state(st, user_id),
                  !.user_profiles = [@ EXCEPT ![user_id].total_appeals = @ + 1]],
         response |-> Some(generate_response("appeal_created",
                         [appeal_id |-> made.appeal.appeal_id,
                          category |-> made.appeal.category,
                          status |-> StatusValue(made.appeal.status)]))]

\* the end of _handle_create_appeal, on a draft that is complete:
\* draft.update(params), create_appeal, clear_state, the counter, the reply
CreateFromDraft(E, st, user_id, message, params, r) ==
    LET merged == params @@ st[user_id].appeal_draft
        made == Created(E.appeals, E.user_appeals, E.clock, user_id,
                        Get(merged, "category", "other"),
                        Get(merged, "subject", message),
                        Get(merged, "description", message),
                        Get(merged, "priority", "normal"), r)
    IN  [E |-> [E EXCEPT
                  !.appeals = made.appeals,
                  !.user_appeals = made.user_appeals,
                  !.clock = made.clock,
                  !.issued = Append(@, made.generated),
                  !.states = clear_state(st, user_id),
                  !.user_profiles = [@ EXCEPT ![user_id].total_appeals = @ + 1]],
         response |-> Some(generate_response("appeal_created",
                         [appeal_id |-> made.appeal.appeal_id,
                          category |-> made.appeal.category,
                          status |-> StatusValue(made.appeal.status)]))]

\* a handler that takes the category of the message when the draft has none
_handle_create_appeal_Consumes(E, user_id, message, params, r) ==
    LET st == get_state(E.states, user_id)
        draft == st[user_id].appeal_draft
    IN  IF "category" \notin DOMAIN draft
        THEN [E |-> [E EXCEPT !.states =
                        update_state(st, user_id, "collecting_category",
                                     [category |-> Get(params, "category", "other")])],
              response |-> Some(CategoryPrompt)]
        ELSE IF {"subject", "description"} \subseteq DOMAIN draft
        THEN CreateFromDraft(E, st, user_id, message, params, r)
        ELSE [E |-> [E EXCEPT !.states = st], response |-> Some(SubjectPrompt)]

_handle_create_appeal(E, user_id, message, params, r) ==
    LET st == get_state(E.states, user_id)
        draft == st[user_id].appeal_draft
    IN  IF "category" \notin DOMAIN draft
        THEN [E |-> [E EXCEPT !.states = st], response |-> Some(CategoryPrompt)]
        ELSE IF "subject" \notin DOMAIN draft
        THEN [E |-> [E EXCEPT !.states =
                        update_state(st, user_id, "collecting_subject",
                                     [category |-> Get(params, "category", "other")])],
              response |-> Some(SubjectPrompt)]
        ELSE IF "description" \notin DOMAIN draft
        THEN [E |-> [E EXCEPT !.states =
                        update_state(st, user_id, "collecting_description",
                                     [subject |-> message])],
              response |-> Some(DescriptionPrompt)]
        ELSE CreateFromDraft(E, st, user_id, message, params, r)

\* the lines of the list of _handle_check_status, from the i-th appeal on
RECURSIVE StatusLines(_, _)
StatusLines(mine, i) ==
    IF i > Len(mine) THEN ""
    ELSE Str(Digits(i)) \o ". " \o mine[i].appeal_id \o " - " \o StatusValue(mine[i].status)
             \o " / " \o StatusLines(mine, i + 1)

\* a status check that also clears the sender's conversation state
_handle_check_status_Clears(E, user_id, message, params, r) ==
    LET mine == UserAppeals(E.user_appeals, E.appeals, user_id)
    IN  [E |-> [E EXCEPT !.states = clear_state(@, user_id)],
         response |-> Some(IF mine = <<>> THEN NoAppealsReply
                           ELSE "Daftar Appeal Anda: / " \o StatusLines(mine, 1))]

_handle_check_status(E, user_id, message, params, r) ==
    LET mine == UserAppeals(E.user_appeals, E.appeals, user_id)
    IN  [E |-> E,
         response |-> Some(
            IF mine = <<>> THEN NoAppealsReply
            ELSE IF Len(mine) = 1
            THEN generate_response("status_check",
                    [appeal_id |-> mine[1].appeal_id, category |-> mine[1].category,
                     status |-> StatusValue(mine[1].status),
                     updated_at |-> IsoDate(mine[1].updated_at)])
            ELSE "Daftar Appeal Anda: / " \o StatusLines(mine, 1)
                     \o " / Reply dengan nomor untuk detail")]

_handle_provide_info(E, user_id, message, params, r) ==
    LET mine == UserAppeals(E.user_appeals, E.appeals, user_id)
        latest_appeal == mine[Len(mine)]
    IN  IF mine = <<>>
        THEN [E |-> E, response |-> Some("Belum ada appeal yang aktif.")]
        ELSE [E |-> [E EXCEPT
                       !.appeals[latest_appeal.appeal_id] = Attached(@, message, E.clock + r[1]),
                       !.clock = @ + r[1]],
              response |-> Some("Informasi/lampiran ditambahkan ke appeal "
                                  \o latest_appeal.appeal_id)]

\* an escalation of the sender's first appeal
_handle_escalate_First(E, user_id, message, params, r) ==
    LET mine == UserAppeals(E.user_appeals, E.appeals, user_id)
        reason == IF message # "" THEN message ELSE "User requested escalation"
    IN  IF mine = <<>>
        THEN [E |-> E, response |-> Some("Belum ada appeal untuk dieskalasi.")]
        ELSE [E |-> [E EXCEPT
                       !.appeals[mine[1].appeal_id] = Escalated(@, reason, E.clock + r[1]),
                       !.clock = @ + r[1]],
              response |-> Some("Appeal " \o mine[1].appeal_id
                                  \o " telah dieskalasi ke tim senior.")]

_handle_escalate(E, user_id, message, params, r) ==
    LET mine == UserAppeals(E.user_appeals, E.appeals, user_id)
        latest_appeal == mine[Len(mine)]
        reason == IF message # "" THEN message ELSE "User requested escalation"
    IN  IF mine = <<>>
        THEN [E |-> E, response |-> Some("Belum ada appeal untuk dieskalasi.")]
        ELSE [E |-> [E EXCEPT
                       !.appeals[latest_appeal.appeal_id] = Escalated(@, reason, E.clock + r[1]),
                       !.clock = @ + r[1]],
              response |-> Some("Appeal " \o latest_appeal.appeal_id
                                  \o " telah dieskalasi ke tim senior.")]

_handle_close_appeal(E, user_id, message, params, r) ==
    LET mine == UserAppeals(E.user_appeals, E.appeals, user_id)
        latest_appeal == mine[Len(mine)]
        resolution == IF message # "" THEN message ELSE "Closed by user"
    IN  IF mine = <<>>
        THEN [E |-> E, response |-> Some("Belum ada appeal untuk ditutup.")]
        ELSE [E |-> [E EXCEPT
                       !.appeals[latest_appeal.appeal_id] = Closed(@, resolution, E.clock + r[1]),
                       !.clock = @ + r[1]],
              response |-> Some("Appeal " \o latest_appeal.appeal_id \o " telah ditutup.")]

_handle_get_help(E, user_id, message, params, r) ==
    [E |-> E, response |-> Some(generate_response("help", NoArgs))]

_handle_cancel(E, user_id, message, params, r) ==
    [E |-> [E EXCEPT !.states = clear_state(@, user_id)],
     response |-> Some("Dibatalkan. Ketik apapun untuk mulai lagi.")]

\* an unknown-intent handler that answers with the invalid_input text alone
_handle_unknown_Menu(E, user_id, message, params, r) ==
    [E |-> E, response |-> Some(generate_response("invalid_input", NoArgs))]

\* TEMPLATES['menu'] raises KeyError when the table has no such template
_handle_unknown(E, user_id, message, params, r) ==
    [E |-> E,
     response |-> IF "menu" \in DOMAIN TEMPLATES
                  THEN Some(Unformatted(TEMPLATES["menu"]) \o " / "
                              \o generate_response("invalid_input", NoArgs))
                  ELSE None]

_route_intent(E, user_id, intent, message, parameters, r) ==
    CASE intent = "create_appeal" -> _handle_create_appeal(E, user_id, message, parameters, r)
      [] intent = "check_status" -> _handle_check_status(E, user_id, message, parameters, r)
      [] intent = "provide_info" -> _handle_provide_info(E, user_id, message, parameters, r)
      [] intent = "escalate" -> _handle_escalate(E, user_id, message, parameters, r)
      [] intent = "close_appeal" -> _handle_close_appeal(E, user_id, message, parameters, r)
      [] intent = "get_help" -> _handle_get_help(E, user_id, message, parameters, r)
      [] intent = "cancel" -> _handle_cancel(E, user_id, message, parameters, r)
      [] OTHER -> _handle_unknown(E, user_id, message, parameters, r)

\* UserProfile(user_id, phone_number = user_id, name = f"User_{user_id[-4:]}");
\* the user ids of the model have at most four characters
UserProfile(user_id) ==
    [user_id |-> user_id, phone_number |-> user_id, name |-> "User_" \o user_id,
     email |-> None, total_appeals |-> 0, verification_status |-> FALSE]

\* the engine's state after _initialize_user
_initialize_user(E, user_id) ==
    [E EXCEPT !.user_profiles = Put(@, user_id, UserProfile(user_id)),
              !.states = initialize_state(@, user_id)]

(***************************************************************************)
(* A raw message: a dict with or without the keys 'from' and 'body', or a  *)
(* value that is no dict.  parse_message gives None for the latter.        *)
(***************************************************************************)
Message(from, body) == [kind |-> "dict", from |-> from, body |-> body]
NotADict == [kind |-> "other", from |-> None, body |-> None]

parse_message(raw_message) ==
    IF raw_message.kind # "dict" THEN None
    ELSE Some([from_number |-> raw_message.from,
               content |-> IF raw_message.body = None THEN "" ELSE raw_message.body[1]])

ErrorReply == generate_response("error", NoArgs)

\* extract_intent on the texts that reach the engine, computed once
Texts == {"I want to report a technical issue", "technical", "Login broken",
          "Cannot log in since yesterday", "create new appeal", "new appeal technical",
          "check status", "cancel and exit", ""}

\* the texts of the messages that act on a sender's appeals
BotTexts == {"create new appeal", "new urgent billing appeal", "check status",
             "cancel and exit", "escalate to manager", "close and finish",
             "here is the attached photo"}

Classified == [text \in Texts \cup BotTexts |-> extract_intent(text)]

\* process_message from the state E: the state it leaves, the response it
\* returns, and what the message was classified as, if it got that far
process_message(E, raw_message, r) ==
    LET parsed_msg == parse_message(raw_message)
        Failed(F) == [E |-> F, response |-> ErrorReply, classified |-> None]
    IN  IF parsed_msg = None THEN Failed(E)
        ELSE IF parsed_msg[1].from_number = None THEN Failed(E)
        ELSE
        LET user_id == parsed_msg[1].from_number[1]
            message_content == parsed_msg[1].content
            E1 == IF user_id \notin DOMAIN E.user_profiles THEN _initialize_user(E, user_id) ELSE E
            found == Classified[message_content]
            E2 == [E1 EXCEPT !.states =
                      add_to_history(get_state(@, user_id), user_id, message_content, "user")]
            routed == _route_intent(E2, user_id, found.intent, message_content,
                                    found.parameters, r)
            entry == [content |-> message_content, intent |-> found.intent,
                      parameters |-> found.parameters]
        IN  IF routed.response = None
            THEN [E |-> routed.E, response |-> ErrorReply, classified |-> Some(entry)]
            ELSE [E |-> [routed.E EXCEPT !.states =
                            add_to_history(@, user_id, routed.response[1], "bot")],
                  response |-> routed.response[1], classified |-> Some(entry)]

(***************************************************************************)
(* A BotEngine from construction, driven by inbound messages alone.        *)
(***************************************************************************)
MaxMsgs == 4            \* messages handed to one BotEngine

MsgTexts == Texts \ {""}

RawMessages ==
    {Message(Some(u), Some(text)) : u \in Users, text \in MsgTexts}
        \cup {NotADict, Message(None, Some("technical")), Message(Some("A"), None)}

\* the advances of the clock that the handling of raw_message can read: those
\* of create_appeal when a draft is complete, one advance or none when a
\* handler changes the sender's latest appeal, none otherwise
ReadsOf(raw_message) ==
    IF raw_message.kind # "dict" \/ raw_message.from = None \/ raw_message.body = None
    THEN {<<0, 0, 0>>}
    ELSE LET user_id == raw_message.from[1]
             intent == Classified[raw_message.body[1]].intent
         IN  IF intent = "create_appeal"
             THEN IF user_id \in DOMAIN states
                     /\ {"category", "subject", "description"}
                            \subseteq DOMAIN states[user_id].appeal_draft
                  THEN CreateReads ELSE {<<0, 0, 0>>}
             ELSE IF intent \in {"provide_info", "escalate", "close_appeal"}
                     /\ get_user_appeals(user_id) # <<>>
             THEN {<<0, 0, 0>>, <<1, 1, 1>>}
             ELSE {<<0, 0, 0>>}

Engine ==
    [appeals |-> appeals, user_appeals |-> user_appeals, clock |-> clock, issued |-> issued,
     states |-> states, user_profiles |-> user_profiles]

\* one call of process_message, on a message of the given set
ReceiveFrom(messages, bound) ==
    /\ calls < bound
    /\ \E raw_message \in messages :
         \E r \in ReadsOf(raw_message) :
            \E done \in {process_message(Engine, raw_message, r)} :
                /\ appeals' = done.E.appeals
                /\ user_appeals' = done.E.user_appeals
                /\ clock' = done.E.clock
                /\ issued' = done.E.issued
                /\ states' = done.E.states
                /\ user_profiles' = done.E.user_profiles
                /\ last' = [op |-> "process_message", id |-> UnknownId, ok |-> TRUE,
                            arg |-> [raw_message |-> raw_message, response |-> done.response]]
                /\ dialog' =
                     IF done.classified = None THEN dialog
                     ELSE LET user_id == raw_message.from[1]
                          IN  Put(dialog, user_id,
                                  Append(Get(dialog, user_id, <<>>),
                                         done.classified[1] @@ [response |-> done.response]))
    /\ calls' = calls + 1
    /\ UNCHANGED <<pc, local, others>>

Receive == ReceiveFrom(RawMessages, MaxMsgs)

NextMsgs == Receive

SpecMsgs == Init /\ [][NextMsgs]_vars

(***************************************************************************)
(* A BotEngine whose AppealManager and ConversationState are also called   *)
(* directly: appeals are created and closed, and the conversation state of *)
(* a sender the engine knows is advanced, between the messages.            *)
(***************************************************************************)
MaxBotCalls == 3        \* calls and messages handed to one BotEngine

BotMessages == {Message(Some(u), Some(text)) : u \in Users, text \in BotTexts}

\* the steps and the patches update_state is called with
Advances ==
    { [step |-> "collecting_subject", data |-> [category |-> "technical"]],
      [step |-> "collecting_description", data |-> [subject |-> "S"]],
      [step |-> "collecting_description", data |-> [category |-> "technical", subject |-> "S"]],
      [step |-> "confirming",
       data |-> [category |-> "technical", subject |-> "S", description |-> "D"]],
      [step |-> "menu", data |-> << >>] }

Advance ==
    /\ calls < MaxBotCalls
    /\ \E user_id \in DOMAIN user_profiles, a \in Advances :
         /\ states' = update_state(states, user_id, a.step, a.data)
         /\ last' = [op |-> "update_state", id |-> UnknownId, ok |-> TRUE,
                     arg |-> [user_id |-> user_id, step |-> a.step, data |-> a.data]]
    /\ calls' = calls + 1
    /\ UNCHANGED <<appeals, user_appeals, clock, issued, pc, local, user_profiles, dialog, others>>

ReceiveBot == ReceiveFrom(BotMessages, MaxBotCalls)

NextBot ==
    \/ create_appeal
    \/ close_appeal
    \/ Advance
    \/ ReceiveBot

SpecBot == Init /\ [][NextBot]_vars

(***************************************************************************)
(* The ConversationState driven through its operations, next to an         *)
(* AppealManager on which appeals are created.                             *)
(***************************************************************************)
MaxStoreCalls == 3      \* calls made on one ConversationState

\* the state of user_id, None when the store holds none
StateOf(st, user_id) == IF user_id \in DOMAIN st THEN Some(st[user_id]) ELSE None

StoreCall(op, user_id, arg) ==
    /\ last' = [op |-> op, id |-> UnknownId, ok |-> TRUE,
                arg |-> arg @@ [user_id |-> user_id, before |-> StateOf(states, user_id)]]
    /\ calls' = calls + 1
    /\ UNCHANGED <<appeals, user_appeals, clock, issued, pc, local, user_profiles, dialog, others>>

GetState ==
    /\ calls < MaxStoreCalls
    /\ \E user_id \in Users :
         /\ states' = get_state(states, user_id)
         /\ StoreCall("get_state", user_id, << >>)

UpdateState ==
    /\ calls < MaxStoreCalls
    /\ \E user_id \in Users, a \in Advances :
         /\ states' = update_state(states, user_id, a.step, a.data)
         /\ StoreCall("update_state", user_id, [step |-> a.step, data |-> a.data])

AddToHistory ==
    /\ calls < MaxStoreCalls
    /\ \E user_id \in Users, sender \in {"user", "bot"} :
         /\ states' = add_to_history(states, user_id, "check status", sender)
         /\ StoreCall("add_to_history", user_id, [sender |-> sender])

ClearState ==
    /\ calls < MaxStoreCalls
    /\ \E user_id \in Users :
         /\ states' = clear_state(states, user_id)
         /\ StoreCall("clear_state", user_id, << >>)

NextStore ==
    \/ GetState
    \/ UpdateState
    \/ AddToHistory
    \/ ClearState
    \/ create_appeal

SpecStore == Init /\ [][NextStore]_vars

(***************************************************************************)
(* The pure functions, each applied once to an input drawn from a bounded  *)
(* set: extract_intent to a text of at most MaxWords words,                *)
(* generate_response to a template name and the bindings of a subset of    *)
(* the placeholders.                                                       *)
(***************************************************************************)
MaxWords == 4           \* words in a text handed to extract_intent

Words == {"new", "appeal", "status", "check", "Urgent", "manager", "low"}

\* the words joined by blanks
RECURSIVE Join(_)
Join(words) ==
    IF words = <<>> THEN <<>>
    ELSE IF Len(words) = 1 THEN Chars(words[1])
    ELSE Chars(Head(words)) \o <<" ">> \o Join(Tail(words))

WordTexts == UNION {[1..n -> Words] : n \in 0..MaxWords}

Classify ==
    /\ calls = 0
    /\ \E words \in WordTexts :
         \E found \in {ExtractIntent(Join(words))} :
            last' = [op |-> "extract_intent", id |-> UnknownId, ok |-> TRUE,
                     arg |-> [text |-> Join(words), intent |-> found.intent,
                              parameters |-> found.parameters]]
    /\ calls' = calls + 1
    /\ UNCHANGED <<appeals, user_appeals, clock, issued, pc, local, engine, others>>

TemplateNames == DOMAIN TEMPLATES \cup {"menu", "goodbye"}

BindingValues ==
    [appeal_id |-> "APP-1", category |-> "billing", status |-> "pending",
     updated_at |-> "day 0", name |-> "Budi"]

Bindings == {[key \in keys |-> BindingValues[key]] : keys \in SUBSET DOMAIN BindingValues}

Render ==
    /\ calls = 0
    /\ \E response_type \in TemplateNames, kwargs \in Bindings :
         last' = [op |-> "generate_response", id |-> UnknownId, ok |-> TRUE,
                  arg |-> [response_type |-> response_type, kwargs |-> kwargs,
                           result |-> generate_response(response_type, kwargs)]]
    /\ calls' = calls + 1
    /\ UNCHANGED <<appeals, user_appeals, clock, issued, pc, local, engine, others>>

NextFns ==
    \/ Classify
    \/ Render

SpecFns == Init /\ [][NextFns]_vars

(***************************************************************************)
(* The MessageHandler's queue.  A message is a dict, a mutable object: the *)
(* lists hold references to it, and the same dict may be queued again.     *)
(* The key 'processed' may be missing from a dict that parse_message did   *)
(* not build.                                                              *)
(***************************************************************************)
MaxQueueCalls == 5      \* calls made on one MessageHandler's queue

MessageIds == {"m1", "m2"}

\* the dicts a caller builds: those of parse_message carry processed = False
NewMessages ==
    {[message_id |-> message_id, processed |-> processed] :
        message_id \in MessageIds, processed \in {None, Some(FALSE)}}

\* the message is a dict built for this call or one that exists already
queue_message ==
    /\ calls < MaxQueueCalls
    /\ \E message \in 1..(Len(message_dicts) + 1) :
         /\ IF message > Len(message_dicts)
            THEN \E new \in NewMessages : message_dicts' = Append(message_dicts, new)
            ELSE UNCHANGED message_dicts
         /\ message_queue' = Append(message_queue, message)
         /\ queued' = Append(queued, message)
         /\ last' = [op |-> "queue_message", id |-> UnknownId, ok |-> TRUE,
                     arg |-> [message |-> message]]
    /\ calls' = calls + 1
    /\ UNCHANGED <<appeals, user_appeals, clock, issued, pc, local, engine,
                   processed_messages, runner>>

\* a dequeue that takes the message queued last
dequeue_and_process_Last ==
    /\ calls < MaxQueueCalls
    /\ IF message_queue = <<>>
       THEN /\ UNCHANGED <<message_dicts, message_queue, processed_messages>>
            /\ last' = [op |-> "dequeue_and_process", id |-> UnknownId, ok |-> TRUE,
                        arg |-> [returned |-> None]]
       ELSE LET message == message_queue[Len(message_queue)]
            IN  /\ message_queue' = SubSeq(message_queue, 1, Len(message_queue) - 1)
                /\ message_dicts' = [message_dicts EXCEPT ![message].processed = Some(TRUE)]
                /\ processed_messages' = Append(processed_messages, message)
                /\ last' = [op |-> "dequeue_and_process", id |-> UnknownId, ok |-> TRUE,
                            arg |-> [returned |-> Some(message)]]
    /\ calls' = calls + 1
    /\ UNCHANGED <<appeals, user_appeals, clock, issued, pc, local, engine, queued, runner>>

dequeue_and_process ==
    /\ calls < MaxQueueCalls
    /\ IF message_queue = <<>>
       THEN /\ UNCHANGED <<message_dicts, message_queue, processed_messages>>
            /\ last' = [op |-> "dequeue_and_process", id |-> UnknownId, ok |-> TRUE,
                        arg |-> [returned |-> None]]
       ELSE LET message == Head(message_queue)
            IN  /\ message_queue' = Tail(message_queue)
                /\ message_dicts' = [message_dicts EXCEPT ![message].processed = Some(TRUE)]
                /\ processed_messages' = Append(processed_messages, message)
                /\ last' = [op |-> "dequeue_and_process", id |-> UnknownId, ok |-> TRUE,
                            arg |-> [returned |-> Some(message)]]
    /\ calls' = calls + 1
    /\ UNCHANGED <<appeals, user_appeals, clock, issued, pc, local, engine, queued, runner>>

NextQueue ==
    \/ queue_message
    \/ dequeue_and_process

SpecQueue == Init /\ [][NextQueue]_vars

(***************************************************************************)
(* WhatsAppAppealBot.run (src/bot_main.py), step by step: the three calls  *)
(* of startup, its end, the entry into the try block, the iterations of    *)
(* the main loop, the exit from the loop and the finally clause.  Each of  *)
(* the two initializers returns False when a statement of its body raises. *)
(* A KeyboardInterrupt is delivered at most once, at any position of       *)
(* startup or of the loop: startup does not catch it, the try block of run *)
(* does.                                                                   *)
(***************************************************************************)
MaxIterations == 2      \* iterations of the main loop that are counted

\* what os.getenv gives: None, the empty string or a value
EnvValues == {None, Some(""), Some("set")}

Environs == [EnvNames -> EnvValues]

\* bool(value) of an Optional[str]
Truthy(value) == value # None /\ value # Some("")

Returned(name, value) == [results EXCEPT ![name] = Some(value)]

\* returns False when the key or the phone number is missing or empty
load_config ==
    /\ run_at = "start"
    /\ results' = Returned("load_config",
                           /\ Truthy(environ["WHATSAPP_API_KEY"])
                           /\ Truthy(environ["WHATSAPP_PHONE_NUMBER"]))
    /\ run_at' = "configured"
    /\ UNCHANGED <<appeals, user_appeals, clock, last, calls, issued, pc, local, engine,
                   handler, environ, is_running, shutdowns, iterations>>

\* a startup that goes on after a failed initialize_database
initialize_database_Unchecked ==
    /\ run_at = "configured"
    /\ \E ok \in BOOLEAN :
         /\ results' = Returned("initialize_database", ok)
         /\ run_at' = "database"
    /\ UNCHANGED <<appeals, user_appeals, clock, last, calls, issued, pc, local, engine,
                   handler, environ, is_running, shutdowns, iterations>>

\* startup returns False when initialize_database does
initialize_database ==
    /\ run_at = "configured"
    /\ \E ok \in BOOLEAN :
         IF ok
         THEN /\ results' = Returned("initialize_database", TRUE)
              /\ run_at' = "database"
         ELSE /\ results' = [results EXCEPT !["initialize_database"] = Some(FALSE),
                                            !["startup"] = Some(FALSE)]
              /\ run_at' = "failed"
    /\ UNCHANGED <<appeals, user_appeals, clock, last, calls, issued, pc, local, engine,
                   handler, environ, is_running, shutdowns, iterations>>

\* startup returns False when initialize_handlers does
initialize_handlers ==
    /\ run_at = "database"
    /\ \E ok \in BOOLEAN :
         IF ok
         THEN /\ results' = Returned("initialize_handlers", TRUE)
              /\ run_at' = "handlers"
         ELSE /\ results' = [results EXCEPT !["initialize_handlers"] = Some(FALSE),
                                            !["startup"] = Some(FALSE)]
              /\ run_at' = "failed"
    /\ UNCHANGED <<appeals, user_appeals, clock, last, calls, issued, pc, local, engine,
                   handler, environ, is_running, shutdowns, iterations>>

\* the end of startup, after its three calls
startup ==
    /\ run_at = "handlers"
    /\ is_running' = TRUE
    /\ results' = Returned("startup", TRUE)
    /\ run_at' = "started"
    /\ UNCHANGED <<appeals, user_appeals, clock, last, calls, issued, pc, local, engine,
                   handler, environ, shutdowns, iterations>>

\* sys.exit(1) of run after a startup that returned False
Exit ==
    /\ run_at = "failed"
    /\ run_at' = "exited"
    /\ UNCHANGED <<appeals, user_appeals, clock, last, calls, issued, pc, local, engine,
                   handler, environ, is_running, results, shutdowns, iterations>>

\* run enters its try block and reaches the test of the while loop
EnterLoop ==
    /\ run_at = "started"
    /\ run_at' = "loop"
    /\ UNCHANGED <<appeals, user_appeals, clock, last, calls, issued, pc, local, engine,
                   handler, environ, is_running, results, shutdowns, iterations>>

\* the test of the loop finds is_running true and the body, pass, is executed
Iterate ==
    /\ run_at = "loop"
    /\ is_running
    /\ iterations < MaxIterations
    /\ iterations' = iterations + 1
    /\ UNCHANGED <<appeals, user_appeals, clock, last, calls, issued, pc, local, engine,
                   handler, environ, is_running, run_at, results, shutdowns>>

\* the loop is left for the finally clause: by a KeyboardInterrupt, which the
\* try block catches, or by a test that finds is_running false
LeaveLoop ==
    /\ run_at = "loop"
    /\ \E interrupt \in BOOLEAN : interrupt \/ ~is_running
    /\ run_at' = "finally"
    /\ UNCHANGED <<appeals, user_appeals, clock, last, calls, issued, pc, local, engine,
                   handler, environ, is_running, results, shutdowns, iterations>>

\* a KeyboardInterrupt before the try block: it is no Exception, so startup
\* does not catch it and run is left without its finally clause
Interrupt ==
    /\ run_at \in {"start", "configured", "database", "handlers", "started"}
    /\ run_at' = "aborted"
    /\ UNCHANGED <<appeals, user_appeals, clock, last, calls, issued, pc, local, engine,
                   handler, environ, is_running, results, shutdowns, iterations>>

\* the finally clause of run
shutdown ==
    /\ run_at = "finally"
    /\ is_running' = FALSE
    /\ shutdowns' = shutdowns + 1
    /\ run_at' = "stopped"
    /\ UNCHANGED <<appeals, user_appeals, clock, last, calls, issued, pc, local, engine,
                   handler, environ, results, iterations>>

InitRun ==
    /\ appeals = << >>
    /\ user_appeals = << >>
    /\ clock = 0
    /\ last = NoCall
    /\ calls = 0
    /\ issued = <<>>
    /\ pc = << >>
    /\ local = << >>
    /\ user_profiles = << >>
    /\ states = << >>
    /\ dialog = << >>
    /\ InitHandler
    /\ \E env \in Environs : InitRunner(env)

NextRun ==
    \/ load_config
    \/ initialize_database
    \/ initialize_handlers
    \/ startup
    \/ Exit
    \/ EnterLoop
    \/ Iterate
    \/ LeaveLoop
    \/ Interrupt
    \/ shutdown

\* a finally clause is executed whenever its try block is left
SpecRun == InitRun /\ [][NextRun]_vars /\ WF_vars(shutdown)

(***************************************************************************)
(* The lifecycle of section 4.3: the transitions the specification allows. *)
(***************************************************************************)
Allowed(from, to) ==
    \/ from = "PENDING" /\ to \in {"UNDER_REVIEW", "ESCALATED"}
    \/ from = "UNDER_REVIEW" /\ to \in {"APPROVED", "REJECTED", "ESCALATED"}
    \/ from \in {"APPROVED", "REJECTED", "ESCALATED"} /\ to = "CLOSED"

\* this step is the call recorded in last', made on an appeal of the table
CallOn(op) == calls' = calls + 1 /\ last'.op = op /\ last'.id \in DOMAIN appeals

\* C1: update_status succeeds only on an allowed transition; on any other pair
\* it returns failure and leaves status, updated_at and notes unchanged.
C1_UpdateStatusOnlyAllowed ==
    [][CallOn("update_status") =>
        LET before == appeals[last'.id]
            after == appeals'[last'.id]
        IN  /\ last'.ok => Allowed(before.status, last'.arg.status)
            /\ ~Allowed(before.status, last'.arg.status) =>
                  /\ ~last'.ok
                  /\ after.status = before.status
                  /\ after.updated_at = before.updated_at
                  /\ after.notes = before.notes]_vars

\* C2: CLOSED is terminal: an appeal that is CLOSED is CLOSED after every step.
C2_ClosedIsTerminal ==
    [][\A id \in DOMAIN appeals :
          appeals[id].status = "CLOSED" => appeals'[id].status = "CLOSED"]_vars

\* C3: close on an appeal already CLOSED returns failure and changes neither
\* updated_at nor resolution.
C3_CloseClosedFails ==
    [][(CallOn("close") /\ appeals[last'.id].status = "CLOSED") =>
          /\ ~last'.ok
          /\ appeals'[last'.id].updated_at = appeals[last'.id].updated_at
          /\ appeals'[last'.id].resolution = appeals[last'.id].resolution]_vars

\* C4: in every reachable state, for every appeal, resolution is set if and
\* only if status is CLOSED.
C4_ResolutionIffClosed ==
    \A id \in DOMAIN appeals :
        (appeals[id].resolution # None) <=> (appeals[id].status = "CLOSED")

\* C5: close with an empty resolution returns failure and changes neither
\* status nor resolution; close with a non-empty resolution from a status that
\* may move to CLOSED sets CLOSED and stores the resolution.
C5_CloseNeedsResolution ==
    [][CallOn("close") =>
        LET before == appeals[last'.id]
            after == appeals'[last'.id]
            resolution == last'.arg.resolution
        IN  /\ resolution = "" =>
                  /\ ~last'.ok
                  /\ after.status = before.status
                  /\ after.resolution = before.resolution
            /\ (resolution # "" /\ Allowed(before.status, "CLOSED")) =>
                  /\ last'.ok
                  /\ after.status = "CLOSED"
                  /\ after.resolution = Some(resolution)]_vars

\* C6: a successful escalate sets priority high and status ESCALATED and
\* appends exactly one note, "Escalated: " followed by the reason, keeping the
\* earlier notes in order.
C6_EscalateEffect ==
    [][(CallOn("escalate") /\ last'.ok) =>
        LET before == appeals[last'.id]
            after == appeals'[last'.id]
            n == Len(before.notes)
        IN  /\ after.priority = "high"
            /\ after.status = "ESCALATED"
            /\ Len(after.notes) = n + 1
            /\ after.notes[n + 1].content = "Escalated: " \o last'.arg.reason
            /\ SubSeq(after.notes, 1, n) = before.notes]_vars

\* an escalation has just succeeded on an appeal that carried a note before
C6_Witness ==
    /\ last.op = "escalate" /\ last.ok
    /\ Len(appeals[last.id].notes) = 2
    /\ appeals[last.id].notes[1].content = "checked"

(***************************************************************************)
(* The order of Python's str on the characters of an id.                   *)
(***************************************************************************)
CharCode(c) ==
    CASE c = "-" -> 45 [] c = "0" -> 48 [] c = "1" -> 49 [] c = "2" -> 50 [] c = "3" -> 51
      [] c = "4" -> 52 [] c = "5" -> 53 [] c = "6" -> 54 [] c = "7" -> 55 [] c = "8" -> 56
      [] c = "9" -> 57 [] c = "A" -> 65 [] c = "P" -> 80

RECURSIVE LexLess(_, _)
LexLess(a, b) ==
    IF b = <<>> THEN FALSE
    ELSE IF a = <<>> THEN TRUE
    ELSE IF Head(a) = Head(b) THEN LexLess(Tail(a), Tail(b))
    ELSE CharCode(Head(a)) < CharCode(Head(b))

\* the timestamp field of an id
StampOf(id) == SubSeq(id, 5, 4 + StampWidth)

\* C7: no two create calls return the same id, and of two ids created within
\* the same second the earlier is lexicographically smaller, for every count.
C7_IdsUniqueAndIncreasing ==
    \A i, j \in 1..Len(issued) :
        i < j =>
            /\ issued[i] # issued[j]
            /\ StampOf(issued[i]) = StampOf(issued[j]) => LexLess(issued[i], issued[j])

\* C8: two concurrent create calls for different senders return distinct ids,
\* and afterwards both appeals are in the table, each listed under its sender.
C8_ConcurrentCreateSafe ==
    (\A t \in Threads : pc[t] = "done") =>
        /\ local[1].appeal_id # local[2].appeal_id
        /\ \A t \in Threads :
              LET appeal_id == Str(local[t].appeal_id[1])
                  listed == get_user_appeals(SenderOf(t))
              IN  /\ appeal_id \in DOMAIN appeals
                  /\ appeals[appeal_id] = local[t].appeal[1]
                  /\ \E k \in 1..Len(listed) : listed[k] = local[t].appeal[1]

\* C9: reading back the appeal create returned yields the arguments given,
\* status PENDING, no attachments, no notes, no resolution, and the sender's
\* list ends with that appeal.
C9_CreateRoundTrip ==
    last.op = "create" =>
        LET got == get_appeal(last.id)
            listed == get_user_appeals(last.arg.user_id)
        IN  /\ got # None
            /\ got[1].appeal_id = last.id
            /\ got[1].user_id = last.arg.user_id
            /\ got[1].category = last.arg.category
            /\ got[1].subject = last.arg.subject
            /\ got[1].description = last.arg.description
            /\ got[1].priority = last.arg.priority
            /\ got[1].status = "PENDING"
            /\ got[1].attachments = <<>>
            /\ got[1].notes = <<>>
            /\ got[1].resolution = None
            /\ listed # <<>>
            /\ listed[Len(listed)] = got[1]

\* a create has just returned the second appeal of its sender
C9_Witness ==
    /\ last.op = "create"
    /\ Len(get_user_appeals(last.arg.user_id)) = 2
    /\ appeals[last.id].priority = "low"

\* C10: the creation dialogue.  For a sender whose first four messages are a
\* create-appeal request, a message that supplies the category, the subject
\* and the description, the replies are the category prompt, the subject
\* prompt, the description prompt and the appeal_created reply with the new
\* id, and exactly one appeal exists for the sender, with the category, the
\* subject and the description supplied.
C10_CreationDialogue ==
    \A user_id \in DOMAIN dialog :
        LET said == dialog[user_id]
            mine == get_user_appeals(user_id)
        IN  (/\ Len(said) = 4
             /\ said[1].intent = "create_appeal"
             /\ "category" \in DOMAIN said[2].parameters
             /\ said[3].content # "" /\ said[4].content # "") =>
                /\ said[1].response = CategoryPrompt
                /\ said[2].response = SubjectPrompt
                /\ said[3].response = DescriptionPrompt
                /\ Len(mine) = 1
                /\ mine[1].category = said[2].parameters.category
                /\ mine[1].subject = said[3].content
                /\ mine[1].description = said[4].content
                /\ said[4].response =
                       generate_response("appeal_created",
                           [appeal_id |-> mine[1].appeal_id, category |-> mine[1].category,
                            status |-> StatusValue(mine[1].status)])

(***************************************************************************)
(* The engine's steps as the properties below see them.                    *)
(***************************************************************************)
\* this step is process_message on a message of user_id that carries a text
Sent(user_id) ==
    /\ calls' = calls + 1
    /\ last'.op = "process_message"
    /\ last'.arg.raw_message.from = Some(user_id)
    /\ last'.arg.raw_message.body # None

\* the intent the message of this step is classified as
SentIntent == Classified[last'.arg.raw_message.body[1]].intent

\* the sender's state as get_or_create gives it
HistoryOf(st, user_id) ==
    IF user_id \in DOMAIN st THEN st[user_id].conversation_history ELSE <<>>
StepOf(st, user_id) == IF user_id \in DOMAIN st THEN st[user_id].current_step ELSE "menu"
DraftOf(st, user_id) == IF user_id \in DOMAIN st THEN st[user_id].appeal_draft ELSE << >>

\* C11: processing an inbound message, whatever its intent, extends the
\* sender's history by exactly two entries: the inbound text with speaker
\* user, then the reply with speaker bot.
C11_HistoryGrowsByTwo ==
    [][\A user_id \in Users :
          Sent(user_id) =>
              HistoryOf(states', user_id) =
                  HistoryOf(states, user_id)
                      \o << [sender |-> "user", message |-> last'.arg.raw_message.body[1]],
                            [sender |-> "bot", message |-> last'.arg.response] >>]_vars

\* C12: for a message that lacks the sender id or lacks the text the engine
\* returns the generic error reply and the user profiles, the conversation
\* states and the appeal table are what they were.
C12_MalformedCreatesNoState ==
    [][(/\ calls' = calls + 1
        /\ last'.op = "process_message"
        /\ last'.arg.raw_message.kind = "dict"
        /\ last'.arg.raw_message.from = None \/ last'.arg.raw_message.body = None) =>
            /\ last'.arg.response = ErrorReply
            /\ user_profiles' = user_profiles
            /\ states' = states
            /\ appeals' = appeals]_vars

\* the operation a handler invokes is not permitted from the status
NotPermitted(intent, status) ==
    \/ intent = "escalate" /\ ~Allowed(status, "ESCALATED")
    \/ intent = "close_appeal" /\ ~Allowed(status, "CLOSED")
    \/ intent = "provide_info" /\ status = "CLOSED"

\* C13: when the operation a handler invokes on the sender's latest appeal is
\* not permitted from the appeal's status, the appeal is not mutated and the
\* reply is the generic error reply.
C13_HandlerRejectsInvalidTransition ==
    [][\A user_id \in Users :
          LET mine == get_user_appeals(user_id)
          IN  (/\ Sent(user_id)
               /\ mine # <<>>
               /\ NotPermitted(SentIntent, mine[Len(mine)].status)) =>
                  /\ appeals' = appeals
                  /\ last'.arg.response = ErrorReply]_vars

\* C14: on an appeal id that is not in the table, update_status, escalate,
\* close and add_attachment return failure and leave the table and every
\* sender's list unchanged, on every such call.
C14_UnknownIdFails ==
    [][(/\ calls' = calls + 1
        /\ last'.op \in {"update_status", "escalate", "close", "add_attachment"}
        /\ last'.id \notin DOMAIN appeals) =>
            /\ ~last'.ok
            /\ appeals' = appeals
            /\ user_appeals' = user_appeals]_vars

\* a call on an unknown id has just failed on a table that holds two appeals
C14_Witness ==
    /\ last.op = "close" /\ ~last.ok
    /\ last.id \notin DOMAIN appeals
    /\ Cardinality(DOMAIN appeals) = 2

\* C15: a check_status message from a sender with no appeals is answered that
\* no appeals exist and leaves the appeal table, the sender's list, and the
\* sender's step and draft as they were.
C15_CheckStatusNoAppeals ==
    [][\A user_id \in Users :
          (/\ Sent(user_id)
           /\ SentIntent = "check_status"
           /\ get_user_appeals(user_id) = <<>>) =>
              /\ last'.arg.response = NoAppealsReply
              /\ appeals' = appeals
              /\ user_appeals' = user_appeals
              /\ StepOf(states', user_id) = StepOf(states, user_id)
              /\ DraftOf(states', user_id) = DraftOf(states, user_id)]_vars

\* a sender without appeals, in the middle of a draft, has just been answered
\* that no appeals exist
C15_Witness ==
    \E user_id \in Users :
        /\ last.op = "process_message"
        /\ last.arg.raw_message = Message(Some(user_id), Some("check status"))
        /\ last.arg.response = NoAppealsReply
        /\ StepOf(states, user_id) = "collecting_subject"
        /\ "category" \in DOMAIN DraftOf(states, user_id)

\* the engine's state after this step
EngineAfter ==
    [appeals |-> appeals', user_appeals |-> user_appeals', clock |-> clock', issued |-> issued',
     states |-> states', user_profiles |-> user_profiles']

\* C16: a cancel message leaves the sender's draft empty and the step the
\* initial one, whatever they were, leaves the appeals untouched, and the next
\* create_appeal message is answered with the category prompt.
C16_CancelClears ==
    [][\A user_id \in Users :
          (Sent(user_id) /\ SentIntent = "cancel") =>
              /\ DraftOf(states', user_id) = << >>
              /\ StepOf(states', user_id) = "menu"
              /\ appeals' = appeals
              /\ user_appeals' = user_appeals
              /\ \A text \in BotTexts :
                    Classified[text].intent = "create_appeal" =>
                        process_message(EngineAfter, Message(Some(user_id), Some(text)),
                                        <<0, 0, 0>>).response = CategoryPrompt]_vars

\* a sender who has an appeal has just cancelled, and the state holds the
\* reply alone
C16_Witness ==
    \E user_id \in Users :
        /\ last.op = "process_message"
        /\ last.arg.raw_message = Message(Some(user_id), Some("cancel and exit"))
        /\ get_user_appeals(user_id) # <<>>
        /\ HistoryOf(states, user_id) = <<[sender |-> "bot", message |-> last.arg.response]>>

\* the priority order of the intents
PriorityOrder ==
    <<"create_appeal", "check_status", "provide_info", "escalate", "close_appeal",
      "get_help", "cancel">>

\* the score of the k-th intent on the text exceeds 0.3
Above(k, content_lower) ==
    10 * Matches(intent_patterns[k].patterns, content_lower) > 3 * Len(intent_patterns[k].patterns)

\* C17: classify returns the first intent of the priority order whose score
\* is above 0.3, also when a later intent scores higher, and unknown when no
\* score is above 0.3.
C17_FirstMatchWins ==
    last.op = "extract_intent" =>
        LET content_lower == Strip(LowerAll(last.arg.text))
            first == {k \in 1..Len(PriorityOrder) :
                         /\ Above(k, content_lower)
                         /\ \A j \in 1..(k - 1) : ~Above(j, content_lower)}
        IN  IF first = {} THEN last.arg.intent = "unknown"
            ELSE \A k \in first : last.arg.intent = PriorityOrder[k]

\* a text classified create_appeal on which check_status scores higher
C17_Witness ==
    /\ last.op = "extract_intent"
    /\ last.arg.intent = "create_appeal"
    /\ LET content_lower == Strip(LowerAll(last.arg.text))
       IN  Matches(intent_patterns[2].patterns, content_lower) * Len(intent_patterns[1].patterns)
               > Matches(intent_patterns[1].patterns, content_lower)
                     * Len(intent_patterns[2].patterns)

\* the text contains one of the keywords, whatever the case of its letters
Contains(chars, keywords) == \E word \in keywords : Search(Chars(word), LowerAll(chars))

\* C18: the parameters always hold a priority: high when the text contains an
\* urgent-class keyword, low when it contains softness keywords only, normal
\* when it contains neither.
C18_PriorityExtraction ==
    last.op = "extract_intent" =>
        /\ "priority" \in DOMAIN last.arg.parameters
        /\ last.arg.parameters.priority =
              IF Contains(last.arg.text, {"urgent", "critical", "high"}) THEN "high"
              ELSE IF Contains(last.arg.text, {"low", "whenever"}) THEN "low"
              ELSE "normal"

\* a text with a keyword of either class, of unknown intent, got priority high
C18_Witness ==
    /\ last.op = "extract_intent"
    /\ last.arg.intent = "unknown"
    /\ Contains(last.arg.text, {"urgent"}) /\ Contains(last.arg.text, {"low"})
    /\ last.arg.parameters.priority = "high"

\* C19: generate_response with a name that is not in the template table gives
\* the generic error template, for every bindings.
C19_UnknownTemplateFallsBack ==
    (last.op = "generate_response" /\ last.arg.response_type \notin DOMAIN TEMPLATES) =>
        last.arg.result = "Terjadi kesalahan. Silakan coba lagi."

\* a name that is not in the table was rendered with bindings
C19_Witness ==
    /\ last.op = "generate_response"
    /\ last.arg.response_type = "goodbye"
    /\ DOMAIN last.arg.kwargs = {"appeal_id", "name"}
    /\ last.arg.result = "Terjadi kesalahan. Silakan coba lagi."

\* the template with the bound placeholders replaced and the others left as
\* they are written
RECURSIVE Partial(_, _)
Partial(template, kwargs) ==
    IF template = <<>> THEN ""
    ELSE (IF Head(template).kind = "lit" THEN Head(template).text
          ELSE IF Head(template).text \in DOMAIN kwargs THEN kwargs[Head(template).text]
          ELSE "{" \o Head(template).text \o "}") \o Partial(Tail(template), kwargs)

\* C20: when a placeholder of the template has no binding, generate_response
\* gives the text with that placeholder left as written and the bound
\* placeholders replaced by their values.
C20_MissingBindingLeftIntact ==
    (last.op = "generate_response" /\ last.arg.response_type \in DOMAIN TEMPLATES) =>
        last.arg.result = Partial(TEMPLATES[last.arg.response_type], last.arg.kwargs)

\* C21: after clear_state the next get_state gives a fresh state (step menu,
\* empty draft, empty history), whatever the state held; clear_state on a
\* sender without a state changes nothing; and clear_state changes neither the
\* appeal table nor a sender's appeal list.
C21_ClearThenFresh ==
    [][(calls' = calls + 1 /\ last'.op = "clear_state") =>
        LET user_id == last'.arg.user_id
        IN  /\ get_state(states', user_id)[user_id] =
                  [current_step |-> "menu", appeal_draft |-> << >>,
                   conversation_history |-> <<>>]
            /\ user_id \notin DOMAIN states => states' = states
            /\ appeals' = appeals
            /\ user_appeals' = user_appeals]_vars

\* a state with a step, a draft and a history has just been cleared
C21_Witness ==
    /\ last.op = "clear_state"
    /\ last.arg.before # None
    /\ last.arg.before[1].current_step = "collecting_subject"
    /\ "category" \in DOMAIN last.arg.before[1].appeal_draft
    /\ last.arg.before[1].conversation_history # <<>>
    /\ last.arg.user_id \notin DOMAIN states

\* C22: add_attachment succeeds exactly when the appeal exists and is not
\* CLOSED; on success the reference becomes the last attachment after the
\* earlier ones; on a CLOSED appeal it fails and leaves attachments and
\* updated_at unchanged.
C22_AttachmentNotOnClosed ==
    [][(calls' = calls + 1 /\ last'.op = "add_attachment") =>
        LET exists == last'.id \in DOMAIN appeals
        IN  /\ last'.ok <=> (exists /\ appeals[last'.id].status # "CLOSED")
            /\ last'.ok =>
                  appeals'[last'.id].attachments =
                      Append(appeals[last'.id].attachments, last'.arg.attachment_url)
            /\ (exists /\ appeals[last'.id].status = "CLOSED") =>
                  /\ appeals'[last'.id].attachments = appeals[last'.id].attachments
                  /\ appeals'[last'.id].updated_at = appeals[last'.id].updated_at]_vars

\* this step is a create_appeal message of user_id
SentCreate(user_id) == Sent(user_id) /\ SentIntent = "create_appeal"

\* C23: a create_appeal message on a draft without category is answered with
\* the category prompt, leaves the sender's step and draft as they were and
\* creates no appeal.
C23_CategoryPromptConsumesNothing ==
    [][\A user_id \in Users :
          (SentCreate(user_id) /\ "category" \notin DOMAIN DraftOf(states, user_id)) =>
              /\ last'.arg.response = CategoryPrompt
              /\ StepOf(states', user_id) = StepOf(states, user_id)
              /\ DraftOf(states', user_id) = DraftOf(states, user_id)
              /\ appeals' = appeals
              /\ user_appeals' = user_appeals]_vars

\* a sender whose draft holds a subject and no category got the category prompt
C23_Witness ==
    \E user_id \in Users :
        /\ last.op = "process_message"
        /\ last.arg.raw_message = Message(Some(user_id), Some("new urgent billing appeal"))
        /\ last.arg.response = CategoryPrompt
        /\ DraftOf(states, user_id) = [subject |-> "S"]
        /\ StepOf(states, user_id) = "collecting_description"

\* C24: a create_appeal message on a draft with a category and no subject
\* stores the message's text as the subject, advances the step and is answered
\* with the description prompt; the draft's category stays.
C24_SubjectStored ==
    [][\A user_id \in Users :
          LET draft == DraftOf(states, user_id)
              after == DraftOf(states', user_id)
          IN  (/\ SentCreate(user_id)
               /\ "category" \in DOMAIN draft
               /\ "subject" \notin DOMAIN draft) =>
                  /\ "subject" \in DOMAIN after
                  /\ after.subject = last'.arg.raw_message.body[1]
                  /\ StepOf(states', user_id) # StepOf(states, user_id)
                  /\ last'.arg.response = DescriptionPrompt
                  /\ "category" \in DOMAIN after
                  /\ after.category = draft.category]_vars

\* C25: a create_appeal message on a draft with category and subject and no
\* description stores the message's text as the description and advances the
\* step; the draft's category and subject stay.
C25_DescriptionStored ==
    [][\A user_id \in Users :
          LET draft == DraftOf(states, user_id)
              after == DraftOf(states', user_id)
          IN  (/\ SentCreate(user_id)
               /\ {"category", "subject"} \subseteq DOMAIN draft
               /\ "description" \notin DOMAIN draft) =>
                  /\ "description" \in DOMAIN after
                  /\ after.description = last'.arg.raw_message.body[1]
                  /\ StepOf(states', user_id) # StepOf(states, user_id)
                  /\ {"category", "subject"} \subseteq DOMAIN after
                  /\ after.category = draft.category
                  /\ after.subject = draft.subject]_vars

\* C26: a create_appeal message on a draft with category, subject and
\* description creates exactly one appeal for the sender from the draft with
\* the classifier's parameters merged into it, leaves the draft empty, adds
\* one to the sender's counter and is answered with the appeal_created
\* template that carries the new id.
C26_CreateFromCompleteDraft ==
    [][\A user_id \in Users :
          LET draft == DraftOf(states, user_id)
              params == Classified[last'.arg.raw_message.body[1]].parameters
              mine == get_user_appeals(user_id)
              after == UserAppeals(user_appeals', appeals', user_id)
              new == after[Len(after)]
          IN  (/\ SentCreate(user_id)
               /\ {"category", "subject", "description"} \subseteq DOMAIN draft) =>
                  /\ Len(after) = Len(mine) + 1
                  /\ Cardinality(DOMAIN appeals') = Cardinality(DOMAIN appeals) + 1
                  /\ \A id \in DOMAIN appeals : appeals'[id] = appeals[id]
                  /\ new.user_id = user_id
                  /\ new.category = IF "category" \in DOMAIN params
                                    THEN params.category ELSE draft.category
                  /\ new.subject = draft.subject
                  /\ new.description = draft.description
                  /\ new.priority = params.priority
                  /\ new.status = "PENDING"
                  /\ DraftOf(states', user_id) = << >>
                  /\ user_profiles'[user_id].total_appeals
                         = user_profiles[user_id].total_appeals + 1
                  /\ last'.arg.response =
                         generate_response("appeal_created",
                             [appeal_id |-> new.appeal_id, category |-> new.category,
                              status |-> "pending"])]_vars

\* a message with a category and a priority has just completed a draft of
\* another category
C26_Witness ==
    \E user_id \in Users :
        LET mine == get_user_appeals(user_id)
        IN  /\ last.op = "process_message"
            /\ last.arg.raw_message = Message(Some(user_id), Some("new urgent billing appeal"))
            /\ Len(mine) = 1
            /\ mine[1].category = "billing" /\ mine[1].priority = "high"
            /\ mine[1].subject = "S" /\ mine[1].description = "D"
            /\ user_profiles[user_id].total_appeals = 1

\* C27: for a sender with two or more appeals the provide_info, escalate and
\* close_appeal handlers act on the sender's latest appeal only: every other
\* appeal, of this sender and of the others, is unchanged.
C27_LatestAppealOnly ==
    [][\A user_id \in Users :
          LET mine == get_user_appeals(user_id)
              latest == mine[Len(mine)].appeal_id
          IN  (/\ Sent(user_id)
               /\ SentIntent \in {"provide_info", "escalate", "close_appeal"}
               /\ Len(mine) >= 2) =>
                  /\ DOMAIN appeals' = DOMAIN appeals
                  /\ user_appeals' = user_appeals
                  /\ \A id \in DOMAIN appeals \ {latest} : appeals'[id] = appeals[id]
                  /\ SentIntent \in {"provide_info", "escalate"} =>
                         appeals'[latest] # appeals[latest]]_vars

\* the later of a sender's two appeals has just been escalated by a message
C27_Witness ==
    \E user_id \in Users :
        LET mine == get_user_appeals(user_id)
        IN  /\ last.op = "process_message"
            /\ last.arg.raw_message = Message(Some(user_id), Some("escalate to manager"))
            /\ Len(mine) = 2
            /\ mine[1].status = "PENDING"
            /\ mine[2].status = "ESCALATED"

\* C28: immediately after create the new appeal's created_at equals its
\* updated_at, also when the clock advances during the construction.
C28_CreatedEqualsUpdated ==
    last.op = "create" => appeals[last.id].created_at = appeals[last.id].updated_at

\* C29: in every state reached from a new BotEngine through process_message
\* alone every sender's draft is empty and the appeal table is empty.
C29_MessagesNeverCreate ==
    /\ appeals = << >>
    /\ user_appeals = << >>
    /\ \A user_id \in DOMAIN states : states[user_id].appeal_draft = << >>

\* a sender has asked for an appeal, named a category and sent two more texts
C29_Witness ==
    \E user_id \in DOMAIN dialog :
        LET said == dialog[user_id]
        IN  /\ Len(said) = 4
            /\ said[1].intent = "create_appeal"
            /\ said[2].intent = "create_appeal"
            /\ "category" \in DOMAIN said[2].parameters
            /\ said[3].intent = "create_appeal"
            /\ said[4].intent = "create_appeal"

\* an internal step of process_message fails on this raw message: it is no
\* dict, it has no sender, or its handler raises
Fails(raw_message) ==
    \/ raw_message.kind # "dict"
    \/ raw_message.from = None
    \/ raw_message.body = None
    \/ Classified[raw_message.body[1]].intent = "unknown"

C31_QueueFifo ==
    [][/\ processed_messages' \o message_queue' = queued'
       /\ \A i \in 1..Len(processed_messages') :
             message_dicts'[processed_messages'[i]].processed = Some(TRUE)
       /\ (/\ last'.op = "dequeue_and_process"
           /\ calls' = calls + 1
           /\ message_queue = <<>>) =>
              /\ last'.arg.returned = None
              /\ message_queue' = message_queue
              /\ processed_messages' = processed_messages]_vars

\* two dicts were queued and processed in their order, and one more dequeue,
\* on the queue emptied again, returned None
C31_Witness ==
    /\ last.op = "dequeue_and_process"
    /\ last.arg.returned = None
    /\ queued = <<1, 2>>
    /\ processed_messages = <<1, 2>>
    /\ message_queue = <<>>
    /\ message_dicts[1].message_id # message_dicts[2].message_id

\* C32: is_running is true only after initialize_database and
\* initialize_handlers have both returned True; what startup returns depends
\* on these two alone, not on load_config; in the main loop is_running is true
\* and no iteration changes it; the loop is left for the finally clause alone,
\* which executes shutdown, once, and leaves is_running false.
C32_RunLifecycle ==
    /\ [](is_running =>
            /\ results.initialize_database = Some(TRUE)
            /\ results.initialize_handlers = Some(TRUE))
    /\ [](results.startup # None =>
            results.startup[1] = (/\ results.initialize_database = Some(TRUE)
                                  /\ results.initialize_handlers = Some(TRUE)))
    /\ [](run_at = "loop" => is_running /\ shutdowns = 0)
    /\ [](run_at = "stopped" => ~is_running /\ shutdowns = 1)
    /\ [][run_at = "loop" =>
            /\ run_at' \in {"loop", "finally"}
            /\ is_running' = is_running]_vars
    /\ [][shutdowns' # shutdowns => (run_at = "finally" /\ shutdowns = 0)]_vars
    /\ (run_at = "finally") ~> (run_at = "stopped")

\* without a key in the environment load_config returned False, startup
\* returned True, the loop was iterated and left, and shutdown has stopped the bot
C32_Witness ==
    /\ environ["WHATSAPP_API_KEY"] = None
    /\ results.load_config = Some(FALSE)
    /\ results.startup = Some(TRUE)
    /\ iterations = MaxIterations
    /\ run_at = "stopped"
    /\ shutdowns = 1
    /\ ~is_running

====
